---- MODULE Spec2Model ----
(***************************************************************************)
(* pi-xcode: the xcode_ui backend dispatcher and its three strategies      *)
(* (runner, shared simctl, native axorcist), modelled as one call that     *)
(* advances from one suspension point (await) to the next.                 *)
(*                                                                         *)
(* Abstractions, stated once:                                              *)
(*  - pi.exec always resolves with {stdout, stderr, code}; its result is   *)
(*    chosen nondeterministically when the awaiting step resumes.          *)
(*  - text is modelled as sequences of lexical tokens; whitespace is not   *)
(*    a token, so a blank line is the empty sequence.                      *)
(*  - an error entry keeps its code and hint ("" = undefined); messages    *)
(*    are left out. An undefined errors list is the empty sequence.        *)
(***************************************************************************)
EXTENDS Integers, Sequences, FiniteSets, TLC

\* ------------------------------------------------------------------------
\* Bounds of the model
\* ------------------------------------------------------------------------
MaxStdoutLines == 2
MaxTimeoutSteps == 3
MaxTextLen == 2

\* ------------------------------------------------------------------------
\* Program constants
\* ------------------------------------------------------------------------
PollIntervalMs == 500
DefaultTimeoutSec == 10

None == "<undefined>"

SHARED_ACTIONS ==
  {"screenshot", "video_start", "video_stop", "logs_start", "logs_stop",
   "crash_list", "crash_export", "export_report"}

INTERACTIVE_ACTIONS ==
  {"tap", "type", "swipe", "scroll", "clear_text", "describe_ui",
   "query_text", "query_controls", "wait_for", "assert"}

XCUITEST_ACTIONS == SHARED_ACTIONS \cup INTERACTIVE_ACTIONS
IDB_ACTIONS == SHARED_ACTIONS \cup INTERACTIVE_ACTIONS

AXORCIST_ACTIONS ==
  {"describe_ui", "tap", "type", "clear_text", "query_text", "wait_for",
   "assert", "screenshot"}

UI_ACTIONS == SHARED_ACTIONS \cup INTERACTIVE_ACTIONS

BackendNames == {"xcuitest", "idb", "axorcist"}
BackendModes == {None, "auto"} \cup BackendNames

\* ------------------------------------------------------------------------
\* Error entries and envelopes
\* ------------------------------------------------------------------------
err(code, hint) == [code |-> code, hint |-> hint]

NoData == [kind |-> "none"]
NoArtifacts == [name |-> None, path |-> None]

Envelope(ok, backend, errors, data, artifacts, warnings) ==
  [ok |-> ok, backend |-> backend, errors |-> errors, data |-> data,
   artifacts |-> artifacts, warnings |-> warnings]

Fail(backend, e, data) == Envelope(FALSE, backend, <<e>>, data, NoArtifacts, <<>>)
Succeed(backend, data, artifacts, warnings) ==
  Envelope(TRUE, backend, <<>>, data, artifacts, warnings)

NoEnvelope == Envelope(FALSE, None, <<>>, NoData, NoArtifacts, <<>>)

\* ------------------------------------------------------------------------
\* JSON text of the runner, as token lines
\* ------------------------------------------------------------------------
OkTokens == {"ok:true", "ok:false", "ok:1"}
ErrorsTokens == {"errors:[]", "errors:[s]", "errors:[o]", "errors:1"}
KVTokens == OkTokens \cup ErrorsTokens \cup {"data:{}"}

RunnerLines ==
  { <<>>,
    <<"log">>,
    <<"{", "ok:true", ",", "data:{}", "}">>,
    <<"{", "ok:false", "}">>,
    <<"{", "ok:false", ",", "errors:[]", "}">>,
    <<"{", "ok:false", ",", "errors:[o]", "}">>,
    <<"{", "data:{}", "}">>,
    <<"{", "log", "}">>,
    <<"[]">>,
    <<"1">>,
    <<"{">>,
    <<"}">> }

RECURSIVE SeqsUpTo(_, _)
SeqsUpTo(S, n) ==
  IF n = 0 THEN {<<>>}
  ELSE LET shorter == SeqsUpTo(S, n - 1)
       IN shorter \cup {Append(s, x) : s \in {t \in shorter : Len(t) = n - 1}, x \in S}

RunnerStdouts == SeqsUpTo(RunnerLines, MaxStdoutLines)

RECURSIVE Flatten(_)
Flatten(lines) ==
  IF lines = <<>> THEN <<>> ELSE Head(lines) \o Flatten(Tail(lines))

RECURSIVE TrimLines(_)
TrimLines(lines) ==
  IF lines = <<>> THEN <<>>
  ELSE IF Head(lines) = <<>> THEN TrimLines(Tail(lines))
  ELSE IF lines[Len(lines)] = <<>> THEN TrimLines(SubSeq(lines, 1, Len(lines) - 1))
  ELSE lines

NonEmptyLines(lines) == SelectSeq(lines, LAMBDA l : l # <<>>)

Invalid == [valid |-> FALSE, rec |-> FALSE, ok |-> "absent", errors |-> "absent", data |-> FALSE]

LastField(members, keys) ==
  LET idx == {i \in 1..Len(members) : members[i] \in keys}
  IN IF idx = {} THEN "absent"
     ELSE members[CHOOSE i \in idx : \A j \in idx : j <= i]

FieldValue(tok) ==
  CASE tok = "absent" -> "absent"
    [] tok = "ok:true" -> "true"
    [] tok = "ok:false" -> "false"
    [] tok = "ok:1" -> "other"
    [] tok = "errors:[]" -> "empty"
    [] tok = "errors:[s]" -> "string"
    [] tok = "errors:[o]" -> "object"
    [] tok = "errors:1" -> "nonarray"
    [] OTHER -> "present"

IsMembers(m) ==
  \/ Len(m) = 0
  \/ /\ Len(m) % 2 = 1
     /\ \A i \in 1..Len(m) : IF i % 2 = 1 THEN m[i] \in KVTokens ELSE m[i] = ","

\* JSON.parse on a token sequence: a number, an array, or an object whose
\* members are key:value tokens separated by commas; anything else throws.
JsonParse(toks) ==
  IF toks = <<"1">> THEN [Invalid EXCEPT !.valid = TRUE]
  ELSE IF toks = <<"[]">> THEN [Invalid EXCEPT !.valid = TRUE, !.rec = TRUE]
  ELSE IF /\ Len(toks) >= 2
          /\ toks[1] = "{"
          /\ toks[Len(toks)] = "}"
          /\ IsMembers(SubSeq(toks, 2, Len(toks) - 1))
       THEN LET m == SubSeq(toks, 2, Len(toks) - 1)
            IN [valid |-> TRUE, rec |-> TRUE,
                ok |-> FieldValue(LastField(m, OkTokens)),
                errors |-> FieldValue(LastField(m, ErrorsTokens)),
                data |-> LastField(m, {"data:{}"}) # "absent"]
       ELSE Invalid

isRecord(v) == v.valid /\ v.rec

RECURSIVE ScanLines(_, _)
ScanLines(lines, i) ==
  IF i < 1 THEN Invalid
  ELSE LET line == lines[i]
       IN IF line = <<>> THEN ScanLines(lines, i - 1)
          ELSE IF line[1] # "{" \/ line[Len(line)] # "}" THEN ScanLines(lines, i - 1)
          ELSE IF isRecord(JsonParse(line)) THEN JsonParse(line)
          ELSE ScanLines(lines, i - 1)

\* variant: only the whole output is parsed, lines are never scanned.
parseRunnerJson_NoLineScan(stdout) ==
  LET trimmed == TrimLines(stdout)
      whole == JsonParse(Flatten(trimmed))
  IN IF isRecord(whole) THEN whole ELSE Invalid

\* parseRunnerJson: Invalid stands for the null result.
parseRunnerJson(stdout) ==
  LET trimmed == TrimLines(stdout)
      whole == JsonParse(Flatten(trimmed))
  IN IF Flatten(trimmed) = <<>> THEN Invalid
     ELSE IF whole.valid THEN (IF isRecord(whole) THEN whole ELSE Invalid)
     ELSE LET lines == NonEmptyLines(trimmed)
          IN ScanLines(lines, Len(lines))


\* ------------------------------------------------------------------------
\* Inputs of a call
\* ------------------------------------------------------------------------
Truthy(s) == s # None /\ s # ""

Ceil(a, b) == (a + b - 1) \div b

NotANumber == -1

LocatorKeys == {"identifier", "title", "role", "description", "placeholder", "label", "value"}

NoLocator == [k \in LocatorKeys |-> None]
Loc(keys, v) == [k \in LocatorKeys |-> IF k \in keys THEN v ELSE None]

\* a text is the sequence of its characters; NoText is an undefined text.
Backslash == "\\"
Quote == "\""
Alphabet == {"a", Backslash, Quote}
Texts == SeqsUpTo(Alphabet, MaxTextLen)
NoText == <<"undefined">>

P0 ==
  [loc |-> NoLocator, text |-> NoText, timeoutMs |-> NotANumber, pid |-> None,
   path |-> None, crashPath |-> None]

\* params.timeout is in seconds; the model keeps timeout * 1000.
Timeouts == {NotANumber} \cup {k * 500 : k \in 0..MaxTimeoutSteps} \cup {250, 2000}

NativeLocators ==
  { NoLocator,
    Loc({"identifier"}, "x"),
    Loc({"title"}, "x"),
    Loc({"role"}, "x"),
    Loc({"description"}, "x"),
    Loc({"placeholder"}, "x"),
    Loc({"label"}, "x"),
    Loc({"identifier", "title"}, "x"),
    Loc({"value"}, "final"),
    [Loc({"identifier"}, "x") EXCEPT !["value"] = "final"] }

NativeParams(action) ==
  CASE action \in {"tap", "clear_text", "assert", "query_text"} ->
         {[P0 EXCEPT !.loc = l] : l \in NativeLocators}
    [] action = "type" ->
         {[P0 EXCEPT !.loc = l, !.text = t] :
            l \in {NoLocator, Loc({"identifier"}, "x"), Loc({"role"}, "x")},
            t \in {NoText, <<>>, <<"a">>}}
           \cup {[P0 EXCEPT !.text = t] : t \in Texts}
    [] action = "wait_for" ->
         {[P0 EXCEPT !.loc = l, !.timeoutMs = t] :
            l \in {NoLocator, Loc({"identifier"}, "x")}, t \in Timeouts}
    [] action = "screenshot" -> {[P0 EXCEPT !.path = p] : p \in {None, "shot.png"}}
    [] OTHER -> {P0}

DeviceParams(action) ==
  CASE action \in {"screenshot", "video_start", "logs_start", "export_report"} ->
         {[P0 EXCEPT !.path = p] : p \in {None, "out"}}
    [] action \in {"video_stop", "logs_stop"} ->
         {[P0 EXCEPT !.pid = p] : p \in {None, "", "42"}}
    [] action = "crash_export" ->
         {[P0 EXCEPT !.crashPath = p] : p \in {None, "a.crash"}}
    [] OTHER -> {P0}

Context(action, mode, runner, app, params) ==
  [action |-> action, backendMode |-> mode, runnerCommand |-> runner,
   application |-> app, params |-> params]

NativeContexts ==
  {Context(a, "axorcist", r, app, p) :
     a \in UI_ACTIONS, r \in {None, "cmd"},
     app \in {None, "", "Finder", "com.app"},
     p \in UNION {NativeParams(x) : x \in AXORCIST_ACTIONS}}

DeviceContexts ==
  {Context(a, m, r, None, p) :
     a \in UI_ACTIONS, m \in BackendModes \ {"axorcist"},
     r \in {None, "", "cmd"},
     p \in UNION {DeviceParams(x) : x \in UI_ACTIONS}}

Contexts ==
  {c \in NativeContexts : c.params \in NativeParams(c.action)}
    \cup {c \in DeviceContexts : c.params \in DeviceParams(c.action)}

\* uiRunnerCommands of the configuration, as Object.entries lists them.
ConfigCommands ==
  { <<>>,
    <<[key |-> "app", value |-> "cmd"]>>,
    <<[key |-> "app", value |-> ""], [key |-> "default", value |-> "cmd"]>>,
    <<[key |-> "app", value |-> "cmd"], [key |-> "other", value |-> ""]>> }

ExitCodes == {0, 1}
Stderrs == {"", "E"}

\* ------------------------------------------------------------------------
\* State
\* ------------------------------------------------------------------------
VARIABLES
  pc,          \* suspension point of the call
  ctx,         \* UiActionContext of the call
  backend,     \* resolved backend
  aborted,     \* signal.aborted
  procs,       \* processes spawned so far through pi.exec, in order
  calls,       \* dispatcher and strategy functions entered so far, in order
  result,      \* the envelope returned (meaningful when pc = "done")
  thrown,      \* an exception left the call
  local        \* locals of the running strategy

vars == <<pc, ctx, backend, aborted, procs, calls, result, thrown, local>>

Proc(cmd, arg) == [cmd |-> cmd, arg |-> arg]

RunResult(exitCode, stdout, stderr) ==
  [exitCode |-> exitCode, stdout |-> stdout, stderr |-> stderr]

\* no axorc response read yet.
NoResponse ==
  [kind |-> "none",
   payload |-> [AXValue |-> [present |-> FALSE,
                             any_value |-> [t |-> "undefined", s |-> ""],
                             anyValue |-> [t |-> "undefined", s |-> ""]],
                shadows |-> FALSE]]

Local0 ==
  [application |-> None, tapCaller |-> None, tiers |-> <<>>, i |-> 0,
   maxAttempts |-> 0, swiftOut |-> None, path |-> None,
   run |-> RunResult(0, <<>>, ""), available |-> None,
   lookup |-> [ok |-> FALSE, output |-> None], axorc |-> NoResponse,
   script |-> <<>>]

NoContext == Context(None, None, None, None, P0)

Init ==
  /\ pc = "idle"
  /\ ctx = NoContext
  /\ backend = None
  /\ aborted = FALSE
  /\ procs = <<>>
  /\ calls = <<>>
  /\ result = NoEnvelope
  /\ thrown = FALSE
  /\ local = Local0

\* What a step decides: where the call suspends next, what it spawns on
\* the way, the envelope it returns (when pc = "done") and its locals.
Outcome(nextPc, spawn, env, loc) ==
  [pc |-> nextPc, spawn |-> spawn, result |-> env, local |-> loc, thrown |-> FALSE,
   calls |-> <<>>]

Return(env, loc) == Outcome("done", <<>>, env, loc)
Await(nextPc, p, loc) == Outcome(nextPc, <<p>>, NoEnvelope, loc)
Throw(loc) == [Outcome("done", <<>>, NoEnvelope, loc) EXCEPT !.thrown = TRUE]

\* the step ran inside the function called name.
Enter(name, o) == [o EXCEPT !.calls = <<name>> \o @]

Apply(o) ==
  /\ pc' = o.pc
  /\ calls' = calls \o o.calls
  /\ procs' = procs \o o.spawn
  /\ result' = o.result
  /\ local' = o.local
  /\ thrown' = o.thrown

\* ------------------------------------------------------------------------
\* Dispatcher
\* ------------------------------------------------------------------------
\* variant: only an unset mode gets the default.
resolveUiBackend_AutoPassthrough(mode) ==
  IF mode = None THEN "xcuitest" ELSE mode

resolveUiBackend(mode) ==
  IF mode = None \/ mode = "auto" THEN "xcuitest" ELSE mode

axorcistSupportsAction(action) == action \in AXORCIST_ACTIONS

backendSupportsAction(b, action) ==
  CASE b = "xcuitest" -> action \in XCUITEST_ACTIONS
    [] b = "idb" -> action \in IDB_ACTIONS
    [] b = "axorcist" -> axorcistSupportsAction(action)
    [] OTHER -> FALSE

\* hasCommand: `command -v` must exit 0, print a path, and the path must
\* be executable.
hasCommand(exitCode, path, executable) ==
  IF exitCode # 0 THEN FALSE
  ELSE IF path = "" THEN FALSE
  ELSE executable

\* ------------------------------------------------------------------------
\* Runner strategy
\* ------------------------------------------------------------------------
RunnerProc(c) == Proc("runner", c.runnerCommand)

\* variant: the idb probe runs before the runner command is checked.
RunnerStart_ProbeFirst(c, b, loc) ==
  Enter("executeRunnerAction",
    IF b = "idb" THEN Await("runner_idb", Proc("command -v", "idb"), loc)
    ELSE IF ~Truthy(c.runnerCommand)
      THEN Return(Envelope(FALSE, b, <<err("MISSING_RUNNER", "pass runnerCommand")>>,
                           NoData, NoArtifacts, <<"best practice">>), loc)
    ELSE Await("runner_run", RunnerProc(c), loc))

\* variant: the runner is invoked without probing for idb.
RunnerStart_NoProbe(c, b, loc) ==
  Enter("executeRunnerAction",
    IF ~Truthy(c.runnerCommand)
      THEN Return(Envelope(FALSE, b, <<err("MISSING_RUNNER", "pass runnerCommand")>>,
                           NoData, NoArtifacts, <<"best practice">>), loc)
    ELSE Await("runner_run", RunnerProc(c), loc))

\* executeRunnerAction up to its first await.
RunnerStart(c, b, loc) ==
  Enter("executeRunnerAction",
    IF ~Truthy(c.runnerCommand)
      THEN Return(Envelope(FALSE, b, <<err("MISSING_RUNNER", "pass runnerCommand")>>,
                           NoData, NoArtifacts, <<"best practice">>), loc)
    ELSE IF b = "idb" THEN Await("runner_idb", Proc("command -v", "idb"), loc)
    ELSE Await("runner_run", RunnerProc(c), loc))

RunnerError(kind) ==
  CASE kind = "string" -> <<err("", "")>>
    [] kind = "object" -> <<err("E_RUNNER", "runner hint")>>
    [] OTHER -> <<>>

\* variant: a missing parse result is reported like a malformed one.
RunnerEnvelope_MergedChecks(b, exitCode, stdout, stderr) ==
  LET parsed == parseRunnerJson(stdout)
  IN IF exitCode # 0 /\ ~parsed.valid
       THEN Fail(b, err("RUNNER_FAILED", ""),
                 [kind |-> "run", exitCode |-> exitCode,
                  stdout |-> TrimLines(stdout), stderr |-> stderr])
     ELSE IF parsed.ok \notin {"true", "false"}
       THEN Fail(b, err("RUNNER_INVALID_JSON", "runner result must include ok"),
                 [kind |-> "parsed", json |-> parsed])
     ELSE Envelope(parsed.ok = "true", b,
                   IF parsed.errors \in {"empty", "string", "object"}
                     THEN RunnerError(parsed.errors)
                   ELSE IF parsed.ok = "true" THEN <<>>
                   ELSE <<err("RUNNER_ACTION_FAILED", "")>>,
                   IF parsed.data THEN [kind |-> "runner_data"] ELSE NoData,
                   NoArtifacts, <<>>)

\* variant: the output check comes before the exit-code check.
RunnerEnvelope_OutputCheckFirst(b, exitCode, stdout, stderr) ==
  LET parsed == parseRunnerJson(stdout)
  IN IF ~parsed.valid
       THEN Fail(b, err("RUNNER_INVALID_OUTPUT", "runner must print a single JSON result"),
                 [kind |-> "output", stdout |-> TrimLines(stdout), stderr |-> stderr])
     ELSE IF parsed.ok \notin {"true", "false"}
       THEN Fail(b, err("RUNNER_INVALID_JSON", "runner result must include ok"),
                 [kind |-> "parsed", json |-> parsed])
     ELSE Envelope(parsed.ok = "true", b,
                   IF parsed.errors \in {"empty", "string", "object"}
                     THEN RunnerError(parsed.errors)
                   ELSE IF parsed.ok = "true" THEN <<>>
                   ELSE <<err("RUNNER_ACTION_FAILED", "")>>,
                   IF parsed.data THEN [kind |-> "runner_data"] ELSE NoData,
                   NoArtifacts, <<>>)

\* variant: a non-zero exit code is a failure whatever the runner printed.
RunnerEnvelope_ExitCodeFirst(b, exitCode, stdout, stderr) ==
  LET parsed == parseRunnerJson(stdout)
  IN IF exitCode # 0
       THEN Fail(b, err("RUNNER_FAILED", ""),
                 [kind |-> "run", exitCode |-> exitCode,
                  stdout |-> TrimLines(stdout), stderr |-> stderr])
     ELSE IF ~parsed.valid
       THEN Fail(b, err("RUNNER_INVALID_OUTPUT", "runner must print a single JSON result"),
                 [kind |-> "output", stdout |-> TrimLines(stdout), stderr |-> stderr])
     ELSE IF parsed.ok \notin {"true", "false"}
       THEN Fail(b, err("RUNNER_INVALID_JSON", "runner result must include ok"),
                 [kind |-> "parsed", json |-> parsed])
     ELSE Envelope(parsed.ok = "true", b,
                   IF parsed.errors \in {"empty", "string", "object"}
                     THEN RunnerError(parsed.errors)
                   ELSE IF parsed.ok = "true" THEN <<>>
                   ELSE <<err("RUNNER_ACTION_FAILED", "")>>,
                   IF parsed.data THEN [kind |-> "runner_data"] ELSE NoData,
                   NoArtifacts, <<>>)

\* executeRunnerAction after the runner process exited.
RunnerEnvelope(b, exitCode, stdout, stderr) ==
  LET parsed == parseRunnerJson(stdout)
  IN IF exitCode # 0 /\ ~parsed.valid
       THEN Fail(b, err("RUNNER_FAILED", ""),
                 [kind |-> "run", exitCode |-> exitCode,
                  stdout |-> TrimLines(stdout), stderr |-> stderr])
     ELSE IF ~parsed.valid
       THEN Fail(b, err("RUNNER_INVALID_OUTPUT", "runner must print a single JSON result"),
                 [kind |-> "output", stdout |-> TrimLines(stdout), stderr |-> stderr])
     ELSE IF parsed.ok \notin {"true", "false"}
       THEN Fail(b, err("RUNNER_INVALID_JSON", "runner result must include ok"),
                 [kind |-> "parsed", json |-> parsed])
     ELSE Envelope(parsed.ok = "true", b,
                   IF parsed.errors \in {"empty", "string", "object"}
                     THEN RunnerError(parsed.errors)
                   ELSE IF parsed.ok = "true" THEN <<>>
                   ELSE <<err("RUNNER_ACTION_FAILED", "")>>,
                   IF parsed.data THEN [kind |-> "runner_data"] ELSE NoData,
                   NoArtifacts, <<>>)

RunnerAfterIdbProbe ==
  /\ pc = "runner_idb"
  /\ \E exitCode \in ExitCodes, path \in {"", "/usr/bin/idb"}, executable \in BOOLEAN :
       LET hasIdb == hasCommand(exitCode, path, executable)
           l == [local EXCEPT !.available = IF hasIdb THEN "yes" ELSE "no"]
       IN Apply(IF hasIdb THEN Await("runner_run", RunnerProc(ctx), l)
                ELSE Return(Fail(backend, err("IDB_NOT_FOUND", "install idb or use backend=xcuitest"),
                                 NoData), l))
  /\ UNCHANGED <<ctx, backend, aborted>>

RunnerAfterRun ==
  /\ pc = "runner_run"
  /\ \E exitCode \in ExitCodes, stdout \in RunnerStdouts, stderr \in Stderrs :
       Apply(Return(RunnerEnvelope(backend, exitCode, stdout, stderr),
                    [local EXCEPT !.run = RunResult(exitCode, stdout, stderr)]))
  /\ UNCHANGED <<ctx, backend, aborted>>


\* ------------------------------------------------------------------------
\* Shared (simctl) strategy
\* ------------------------------------------------------------------------
DefaultArtifactPath == "/tmp/pi-xcode/screenshots/generated.png"

\* variant: the stop actions signal the pid without checking it.
SharedStart_KillUnchecked(c, b, loc) ==
  LET p == c.params
      action == c.action
      WithPath(path) == [loc EXCEPT !.path = path]
  IN Enter("executeSharedUiAction",
     CASE action = "screenshot" ->
            LET path == IF Truthy(p.path) THEN p.path ELSE DefaultArtifactPath
            IN Await("shared_wait", Proc("simctl io screenshot", path), WithPath(path))
       [] action = "video_start" ->
            LET path == IF p.path # None THEN p.path ELSE "./xcode-ui-recording.mp4"
            IN Await("shared_wait", Proc("simctl io recordVideo", path), WithPath(path))
       [] action = "video_stop" ->
            Await("shared_wait", Proc("kill -INT", p.pid), loc)
       [] action = "logs_start" ->
            LET path == IF p.path # None THEN p.path ELSE "./xcode-ui-device.log"
            IN Await("shared_wait", Proc("simctl spawn log stream", path), WithPath(path))
       [] action = "logs_stop" ->
            Await("shared_wait", Proc("kill -INT", p.pid), loc)
       [] action = "crash_list" ->
            Await("shared_wait", Proc("ls DiagnosticReports", ""), loc)
       [] action = "crash_export" ->
            IF ~Truthy(p.crashPath)
              THEN Return(Fail(b, err("MISSING_CRASH_PATH", ""), NoData), loc)
            ELSE Await("shared_wait", Proc("cp", p.crashPath), WithPath("./crash-export.txt"))
       [] action = "export_report" ->
            LET path == IF p.path # None THEN p.path ELSE "./xcode-ui-report.json"
            IN Await("shared_wait", Proc("cat report", path), WithPath(path))
       [] OTHER -> Return(Fail(b, err("", ""), NoData), loc))

\* executeSharedUiAction up to its first await.
SharedStart(c, b, loc) ==
  LET p == c.params
      action == c.action
      WithPath(path) == [loc EXCEPT !.path = path]
  IN Enter("executeSharedUiAction",
     CASE action = "screenshot" ->
            LET path == IF Truthy(p.path) THEN p.path ELSE DefaultArtifactPath
            IN Await("shared_wait", Proc("simctl io screenshot", path), WithPath(path))
       [] action = "video_start" ->
            LET path == IF p.path # None THEN p.path ELSE "./xcode-ui-recording.mp4"
            IN Await("shared_wait", Proc("simctl io recordVideo", path), WithPath(path))
       [] action = "video_stop" ->
            IF ~Truthy(p.pid) THEN Return(Fail(b, err("MISSING_PID", ""), NoData), loc)
            ELSE Await("shared_wait", Proc("kill -INT", p.pid), loc)
       [] action = "logs_start" ->
            LET path == IF p.path # None THEN p.path ELSE "./xcode-ui-device.log"
            IN Await("shared_wait", Proc("simctl spawn log stream", path), WithPath(path))
       [] action = "logs_stop" ->
            IF ~Truthy(p.pid) THEN Return(Fail(b, err("MISSING_PID", ""), NoData), loc)
            ELSE Await("shared_wait", Proc("kill -INT", p.pid), loc)
       [] action = "crash_list" ->
            Await("shared_wait", Proc("ls DiagnosticReports", ""), loc)
       [] action = "crash_export" ->
            IF ~Truthy(p.crashPath)
              THEN Return(Fail(b, err("MISSING_CRASH_PATH", ""), NoData), loc)
            ELSE Await("shared_wait", Proc("cp", p.crashPath), WithPath("./crash-export.txt"))
       [] action = "export_report" ->
            LET path == IF p.path # None THEN p.path ELSE "./xcode-ui-report.json"
            IN Await("shared_wait", Proc("cat report", path), WithPath(path))
       [] OTHER -> Return(Fail(b, err("", ""), NoData), loc))

\* executeSharedUiAction after its process exited.
SharedEnvelope(c, b, loc, exitCode, stdout) ==
  LET action == c.action
      Failed(code) == Fail(b, err(code, ""), NoData)
      Path(name) == [name |-> name, path |-> loc.path]
  IN CASE action = "screenshot" ->
            IF exitCode # 0 THEN Failed("SIMCTL_SCREENSHOT_FAILED")
            ELSE Succeed(b, [kind |-> "path", path |-> loc.path], Path("screenshot"), <<>>)
       [] action = "video_start" ->
            IF exitCode # 0 THEN Failed("SIMCTL_VIDEO_START_FAILED")
            ELSE Succeed(b, [kind |-> "pid", pid |-> stdout, path |-> loc.path],
                         Path("video"), <<"stop with video_stop">>)
       [] action = "video_stop" ->
            IF exitCode # 0 THEN Failed("SIMCTL_VIDEO_STOP_FAILED")
            ELSE Succeed(b, [kind |-> "pid", pid |-> c.params.pid, path |-> None],
                         NoArtifacts, <<>>)
       [] action = "logs_start" ->
            IF exitCode # 0 THEN Failed("LOG_STREAM_START_FAILED")
            ELSE Succeed(b, [kind |-> "pid", pid |-> stdout, path |-> loc.path],
                         Path("logs"), <<"stop with logs_stop">>)
       [] action = "logs_stop" ->
            IF exitCode # 0 THEN Failed("LOG_STREAM_STOP_FAILED")
            ELSE Succeed(b, [kind |-> "pid", pid |-> c.params.pid, path |-> None],
                         NoArtifacts, <<>>)
       [] action = "crash_list" ->
            Succeed(b, [kind |-> "crashes", listed |-> stdout # ""], NoArtifacts, <<>>)
       [] action = "crash_export" ->
            IF exitCode # 0 THEN Failed("CRASH_EXPORT_FAILED")
            ELSE Succeed(b, [kind |-> "path", path |-> loc.path], Path("crash"), <<>>)
       [] action = "export_report" ->
            IF exitCode # 0 THEN Failed("REPORT_EXPORT_FAILED")
            ELSE Succeed(b, [kind |-> "path", path |-> loc.path], Path("report"), <<>>)
       [] OTHER -> Failed("")

SharedAfterProcess ==
  /\ pc = "shared_wait"
  /\ \E exitCode \in ExitCodes, stdout \in {"", "4711"} :
       Apply(Return(SharedEnvelope(ctx, backend, local, exitCode, stdout), local))
  /\ UNCHANGED <<ctx, backend, aborted>>


\* ------------------------------------------------------------------------
\* axorc protocol (libs/axorcist.ts) and attribute wrappers
\* ------------------------------------------------------------------------
AV(t, str) == [t |-> t, s |-> str]
Undefined == AV("undefined", "")
Wrapper(a, b) == [present |-> TRUE, any_value |-> a, anyValue |-> b]
NoWrapper == [present |-> FALSE, any_value |-> Undefined, anyValue |-> Undefined]

unwrapString(w) ==
  IF ~w.present THEN None
  ELSE LET av == IF w.any_value.t \in {"undefined", "null"} THEN w.anyValue ELSE w.any_value
       IN IF av.t \in {"undefined", "null"} THEN None
          ELSE IF av.t = "string" THEN av.s
          ELSE None

\* data of a successful axorc response: the AXValue wrapper of the element
\* and whether the payload itself has keys named found / attempts.
Payload(w, shadows) == [AXValue |-> w, shadows |-> shadows]
PlainPayload == Payload(NoWrapper, FALSE)

QueryPayloads ==
  { PlainPayload,
    Payload(NoWrapper, TRUE),
    Payload(Wrapper(AV("string", "draft"), Undefined), FALSE),
    Payload(Wrapper(AV("string", "final"), Undefined), FALSE),
    Payload(Wrapper(Undefined, AV("string", "final")), FALSE),
    Payload(Wrapper(AV("null", ""), Undefined), FALSE),
    Payload(Wrapper(AV("int", "1"), Undefined), FALSE) }

AxorcOut(kind, payload) == [kind |-> kind, payload |-> payload]

\* what axorc prints: a response object with status success or error (its
\* protocol), or text that is no JSON.
AxorcOutputs(payloads) ==
  {AxorcOut("success", p) : p \in payloads}
    \cup {AxorcOut(k, PlainPayload) : k \in {"error", "not_json"}}

\* runAxorcRaw: a JSON.parse failure and status "error" give ok = false.
runAxorcRaw(out) ==
  CASE out.kind = "not_json" -> [ok |-> FALSE, data |-> [kind |-> "run"]]
    [] out.kind = "error" -> [ok |-> FALSE, data |-> [kind |-> "response"]]
    [] OTHER -> [ok |-> TRUE, data |-> [kind |-> "axorc", payload |-> out.payload]]

BACKEND == "axorcist"

mapAxorcResult(r) ==
  IF r.ok THEN Succeed(BACKEND, r.data, NoArtifacts, <<>>)
  ELSE Fail(BACKEND, err("AXORC_ERROR", ""), r.data)

\* ------------------------------------------------------------------------
\* Locator
\* ------------------------------------------------------------------------
Criterion(attribute, value, matchType) ==
  [attribute |-> attribute, value |-> value, match_type |-> matchType]

PushIf(criteria, value, attribute, matchType) ==
  IF value # None THEN Append(criteria, Criterion(attribute, value, matchType))
  ELSE criteria

\* buildLocator: the criteria list; the empty list stands for null.
buildLocator(params) ==
  LET l == params.loc
      c1 == PushIf(<<>>, l["identifier"], "AXIdentifier", "exact")
      c2 == PushIf(c1, l["title"], "AXTitle", "exact")
      c3 == PushIf(c2, l["role"], "AXRole", "exact")
      c4 == PushIf(c3, l["description"], "AXDescription", "contains")
      c5 == PushIf(c4, l["placeholder"], "AXPlaceholderValue", "contains")
      c6 == PushIf(c5, l["label"], "AXTitle", "exact")
  IN IF l["value"] # None /\ Len(c6) = 0
       THEN <<Criterion("AXValue", l["value"], "contains")>>
     ELSE c6

MissingParams == Fail(BACKEND, err("MISSING_PARAMS", ""), NoData)

\* ------------------------------------------------------------------------
\* Native strategy: tap
\* ------------------------------------------------------------------------
\* a tap that ends: back to executeAxorcistAction, or to the type fallback.
TapReturn(env, loc) ==
  IF loc.tapCaller = "type"
    THEN IF ~env.ok
           THEN Return(Fail(BACKEND, err("TYPE_FALLBACK_FAILED", ""), env.data), loc)
         ELSE Outcome("type_settle", <<>>, NoEnvelope, loc)
  ELSE Return(env, loc)

\* tap up to its first await.
tap(params, caller, loc) ==
  LET l == [loc EXCEPT !.tapCaller = caller]
  IN IF buildLocator(params) = <<>> THEN TapReturn(MissingParams, l)
     ELSE Await("tap_press", Proc("axorc", "performAction AXPress"),
                [l EXCEPT !.tiers = Append(@, "validated_press")])

\* tapViaAccessibilityApi up to its await of the Swift helper.
tapViaAccessibilityApi(params, loc) ==
  LET identifier == params.loc["identifier"]
      title == params.loc["title"]
      searchAttr == IF Truthy(identifier) THEN "AXIdentifier"
                    ELSE IF Truthy(title) THEN "AXTitle" ELSE None
      searchValue == IF identifier # None THEN identifier ELSE title
  IN IF searchAttr = None \/ ~Truthy(searchValue) THEN TapReturn(MissingParams, loc)
     ELSE Await("tap_swift", Proc("swift", searchAttr), loc)

\* the platform's verdict on a tier, as the code observed it.
Observed(loc, event) == [loc EXCEPT !.tiers = Append(@, event)]

TapAfterPress ==
  /\ pc = "tap_press"
  /\ \E out \in AxorcOutputs({PlainPayload}) :
       LET r == runAxorcRaw(out)
           l == [local EXCEPT !.axorc = out]
       IN Apply(IF r.ok THEN TapReturn(Succeed(BACKEND, r.data, NoArtifacts, <<>>), l)
                ELSE tapViaAccessibilityApi(ctx.params,
                                            Observed(l, "validated_press_failed")))
  /\ UNCHANGED <<ctx, backend, aborted>>

\* variant: the helper clicks the element's centre without pressing it.
SwiftScript_ClickFirst(toolchain, appFound, elementFound, pressed, positioned) ==
  IF ~toolchain THEN [stdout |-> "not_json", tiers |-> <<>>]
  ELSE IF ~appFound THEN [stdout |-> "app not found", tiers |-> <<>>]
  ELSE IF ~elementFound THEN [stdout |-> "element not found", tiers |-> <<>>]
  ELSE IF ~positioned THEN [stdout |-> "cannot get position", tiers |-> <<>>]
  ELSE [stdout |-> "coordinate_click", tiers |-> <<"coordinate_click">>]

\* The Swift helper: locate the application and the element, press it
\* directly, and click its centre when the press fails.
SwiftScript(toolchain, appFound, elementFound, pressed, positioned) ==
  IF ~toolchain THEN [stdout |-> "not_json", tiers |-> <<>>]
  ELSE IF ~appFound THEN [stdout |-> "app not found", tiers |-> <<>>]
  ELSE IF ~elementFound THEN [stdout |-> "element not found", tiers |-> <<>>]
  ELSE IF pressed THEN [stdout |-> "AXPress", tiers |-> <<"direct_press">>]
  ELSE IF ~positioned
    THEN [stdout |-> "cannot get position", tiers |-> <<"direct_press", "direct_press_failed">>]
  ELSE [stdout |-> "coordinate_click",
        tiers |-> <<"direct_press", "direct_press_failed", "coordinate_click">>]

SwiftTapScript ==
  /\ pc = "tap_swift"
  /\ \E toolchain, appFound, elementFound, pressed, positioned \in BOOLEAN :
       LET run == SwiftScript(toolchain, appFound, elementFound, pressed, positioned)
       IN Apply(Outcome("tap_swift_exit", <<>>, NoEnvelope,
                        [local EXCEPT !.swiftOut = run.stdout, !.tiers = @ \o run.tiers]))
  /\ UNCHANGED <<ctx, backend, aborted>>

\* variant: a fallback success is returned without its method.
SwiftEnvelope_NoMethod(stdout) ==
  IF stdout = "not_json"
    THEN Fail(BACKEND, err("AXPRESS_FALLBACK_FAILED", ""), [kind |-> "run"])
  ELSE IF stdout \in {"AXPress", "coordinate_click"}
    THEN Succeed(BACKEND, NoData, NoArtifacts, <<>>)
  ELSE Fail(BACKEND, err("AXPRESS_FALLBACK_FAILED", ""), NoData)

\* tapViaAccessibilityApi after the Swift helper exited.
SwiftEnvelope(stdout) ==
  IF stdout = "not_json"
    THEN Fail(BACKEND, err("AXPRESS_FALLBACK_FAILED", ""), [kind |-> "run"])
  ELSE IF stdout \in {"AXPress", "coordinate_click"}
    THEN Succeed(BACKEND, [kind |-> "fallback", method |-> stdout], NoArtifacts, <<>>)
  ELSE Fail(BACKEND, err("AXPRESS_FALLBACK_FAILED", ""), NoData)

TapAfterSwift ==
  /\ pc = "tap_swift_exit"
  /\ Apply(TapReturn(SwiftEnvelope(local.swiftOut), local))
  /\ UNCHANGED <<ctx, backend, aborted>>


\* ------------------------------------------------------------------------
\* Native strategy: type
\* ------------------------------------------------------------------------
KeystrokeProc == Proc("osascript", "keystroke")

\* typeAction up to its first await.
typeAction(params, loc) ==
  IF params.text = NoText \/ params.text = <<>> THEN Return(MissingParams, loc)
  ELSE IF buildLocator(params) # <<>>
    THEN Await("type_set", Proc("axorc", "performAction AXSetValue"),
               [loc EXCEPT !.tiers = Append(@, "value_set")])
  ELSE Await("type_set", Proc("axorc", "setFocusedValue"),
             [loc EXCEPT !.tiers = Append(@, "value_set")])

\* String.replaceAll for a one-character pattern.
RECURSIVE replaceAll(_, _, _)
replaceAll(s, c, r) ==
  IF s = <<>> THEN <<>>
  ELSE (IF Head(s) = c THEN r ELSE <<Head(s)>>) \o replaceAll(Tail(s), c, r)

\* variant: the quotes are escaped before the backslashes.
escaped_QuotesFirst(text) ==
  replaceAll(replaceAll(text, Quote, <<Backslash, Quote>>), Backslash, <<Backslash, Backslash>>)

escaped(text) ==
  replaceAll(replaceAll(text, Backslash, <<Backslash, Backslash>>), Quote, <<Backslash, Quote>>)

\* the string literal of the keystroke command in the script.
KeystrokeLiteral(text) == <<Quote>> \o escaped(text) \o <<Quote>>

SendKeystrokes(text, loc) ==
  Await("type_keys", KeystrokeProc,
        [loc EXCEPT !.tiers = Append(@, "keystroke"), !.script = KeystrokeLiteral(text)])

\* variant: the keystrokes are sent without focusing the element.
typeViaKeystrokeFallback_NoTap(params, loc) ==
  SendKeystrokes(params.text, loc)

\* typeViaKeystrokeFallback up to its first await.
typeViaKeystrokeFallback(params, loc) ==
  IF buildLocator(params) # <<>> THEN tap(params, "type", loc)
  ELSE SendKeystrokes(params.text, loc)

TypeAfterSetValue ==
  /\ pc = "type_set"
  /\ \E out \in AxorcOutputs({PlainPayload}) :
       LET r == runAxorcRaw(out)
           l == [local EXCEPT !.axorc = out]
       IN Apply(IF r.ok THEN Return(mapAxorcResult(r), l)
                ELSE typeViaKeystrokeFallback(ctx.params, Observed(l, "value_set_failed")))
  /\ UNCHANGED <<ctx, backend, aborted>>

\* the 100 ms settle delay elapsed (a plain timer, not tied to the signal).
TypeAfterSettle ==
  /\ pc = "type_settle"
  /\ Apply(SendKeystrokes(ctx.params.text, Observed(local, "settled")))
  /\ UNCHANGED <<ctx, backend, aborted>>

KeystrokeEnvelope(exitCode) ==
  IF exitCode # 0 THEN Fail(BACKEND, err("KEYSTROKE_FALLBACK_FAILED", ""), NoData)
  ELSE Succeed(BACKEND, [kind |-> "typed", method |-> "keystroke_fallback"], NoArtifacts, <<>>)

TypeAfterKeystroke ==
  /\ pc = "type_keys"
  /\ \E exitCode \in ExitCodes : Apply(Return(KeystrokeEnvelope(exitCode), local))
  /\ UNCHANGED <<ctx, backend, aborted>>

\* ------------------------------------------------------------------------
\* Native strategy: clear_text, query_text, describe_ui, assert, screenshot
\* ------------------------------------------------------------------------
\* variant: clear_text does not require a locator.
clearText_NoLocatorCheck(params, loc) ==
  Await("clear_set", Proc("axorc", "performAction AXSetValue"), loc)

clearText(params, loc) ==
  IF buildLocator(params) = <<>> THEN Return(MissingParams, loc)
  ELSE Await("clear_set", Proc("axorc", "performAction AXSetValue"), loc)

ClearTextAfterSetValue ==
  /\ pc = "clear_set"
  /\ \E out \in AxorcOutputs({PlainPayload}) :
       LET r == runAxorcRaw(out)
       IN Apply(Return(mapAxorcResult(r), local))
  /\ UNCHANGED <<ctx, backend, aborted>>

\* describeUi and queryText after their axorc command.
ReadEnvelope(r, kind) ==
  IF ~r.ok THEN Fail(BACKEND, err("AXORC_ERROR", ""), r.data)
  ELSE Succeed(BACKEND, [kind |-> kind], NoArtifacts, <<>>)

DescribeUiAfterCollect ==
  /\ pc = "describe_collect"
  /\ \E out \in AxorcOutputs({PlainPayload}) :
       LET r == runAxorcRaw(out)
       IN Apply(Return(ReadEnvelope(r, "elements"), local))
  /\ UNCHANGED <<ctx, backend, aborted>>

QueryTextAfterExtract ==
  /\ pc = "query_extract"
  /\ \E out \in AxorcOutputs({PlainPayload}) :
       LET r == runAxorcRaw(out)
       IN Apply(Return(ReadEnvelope(r, "text"), local))
  /\ UNCHANGED <<ctx, backend, aborted>>

assertElement(params, loc) ==
  IF buildLocator(params) = <<>> THEN Return(MissingParams, loc)
  ELSE Await("assert_query", Proc("axorc", "query"), loc)

\* assertElement after the query.
AssertEnvelope(params, r) ==
  LET expectedValue == params.loc["value"]
      actual == unwrapString(r.data.payload.AXValue)
  IN IF ~r.ok THEN Fail(BACKEND, err("ASSERT_NOT_FOUND", "check locator criteria"), NoData)
     ELSE IF expectedValue # None /\ actual # expectedValue
       THEN Fail(BACKEND, err("ASSERT_VALUE_MISMATCH", ""),
                 [kind |-> "mismatch", expected |-> expectedValue, actual |-> actual])
     ELSE Succeed(BACKEND, [kind |-> "found", found |-> ~r.data.payload.shadows,
                            payload |-> r.data.payload], NoArtifacts, <<>>)

AssertAfterQuery ==
  /\ pc = "assert_query"
  /\ \E out \in AxorcOutputs(QueryPayloads) :
       LET r == runAxorcRaw(out)
       IN Apply(Return(AssertEnvelope(ctx.params, r), [local EXCEPT !.axorc = out]))
  /\ UNCHANGED <<ctx, backend, aborted>>

\* native screenshot up to its await of screencapture.
screenshot(params, loc) ==
  LET path == IF Truthy(params.path) THEN params.path ELSE DefaultArtifactPath
  IN Await("ax_capture", Proc("screencapture", path), [loc EXCEPT !.path = path])

ScreenshotAfterCapture ==
  /\ pc = "ax_capture"
  /\ \E exitCode \in ExitCodes :
       Apply(Return(IF exitCode # 0
                      THEN Fail(BACKEND, err("SCREENSHOT_FAILED", ""), NoData)
                    ELSE Succeed(BACKEND, [kind |-> "path", path |-> local.path],
                                 [name |-> "screenshot", path |-> local.path], <<>>),
                    local))
  /\ UNCHANGED <<ctx, backend, aborted>>


\* ------------------------------------------------------------------------
\* Native strategy: wait_for
\* ------------------------------------------------------------------------
\* variant: one attempt more than the timeout allows.
MaxAttempts_OneMore(params) ==
  LET timeoutMs == IF params.timeoutMs # NotANumber THEN params.timeoutMs
                   ELSE DefaultTimeoutSec * 1000
  IN (timeoutMs \div PollIntervalMs) + 1

MaxAttempts(params) ==
  LET timeoutMs == IF params.timeoutMs # NotANumber THEN params.timeoutMs
                   ELSE DefaultTimeoutSec * 1000
  IN Ceil(timeoutMs, PollIntervalMs)

\* the head of the polling loop, entered with loop variable i.
WaitLoop(i, ab, loc) ==
  LET l == [loc EXCEPT !.i = i]
  IN IF i >= l.maxAttempts
       THEN Return(Fail(BACKEND, err("WAIT_TIMEOUT", "element may not exist"), NoData), l)
     ELSE IF ab THEN Return(Fail(BACKEND, err("ABORTED", ""), NoData), l)
     ELSE Await("wait_query", Proc("axorc", "query"), l)

\* waitFor up to its first await.
waitFor(params, ab, loc) ==
  IF buildLocator(params) = <<>> THEN Return(MissingParams, loc)
  ELSE WaitLoop(0, ab, [loc EXCEPT !.maxAttempts = MaxAttempts(params)])

\* data of a successful wait: { found: true, attempts: i + 1, ...payload }.
WaitData(i, payload) ==
  [kind |-> "wait", found |-> ~payload.shadows,
   attempts |-> IF payload.shadows THEN 0 ELSE i + 1, payload |-> payload]

\* sleep(interval, signal): rejects at once when the signal is aborted.
WaitAfterFailedPoll(ab, loc) ==
  IF loc.i < loc.maxAttempts - 1
    THEN IF ab THEN Throw(loc) ELSE Outcome("wait_sleep", <<>>, NoEnvelope, loc)
  ELSE WaitLoop(loc.i + 1, ab, loc)

WaitForAfterQuery ==
  /\ pc = "wait_query"
  /\ \E out \in AxorcOutputs(QueryPayloads) :
       LET r == runAxorcRaw(out)
           l == [local EXCEPT !.axorc = out]
       IN Apply(IF r.ok
                  THEN Return(Succeed(BACKEND, WaitData(l.i, r.data.payload),
                                      NoArtifacts, <<>>), l)
                ELSE WaitAfterFailedPoll(aborted, l))
  /\ UNCHANGED <<ctx, backend, aborted>>

\* the 500 ms timer of sleep fired.
WaitForAfterSleep ==
  /\ pc = "wait_sleep"
  /\ Apply(WaitLoop(local.i + 1, aborted, local))
  /\ UNCHANGED <<ctx, backend, aborted>>

\* the abort listener of sleep: clears the timer and rejects the promise,
\* which nothing in waitFor or its callers catches.
SleepAbortListener ==
  /\ pc = "wait_sleep"
  /\ aborted' = TRUE
  /\ Apply(Throw(local))
  /\ UNCHANGED <<ctx, backend>>

\* the caller fires the cancellation signal while a process runs.
SignalAbort ==
  /\ pc \notin {"idle", "done", "wait_sleep"}
  /\ ~aborted
  /\ aborted' = TRUE
  /\ UNCHANGED <<pc, ctx, backend, procs, calls, result, thrown, local>>

\* ------------------------------------------------------------------------
\* Native strategy: entry
\* ------------------------------------------------------------------------
Dotted == {"com.app", "com.apple.finder"}

\* the switch of executeAxorcistAction, up to the action's first await.
AxorcistAction(c, ab, loc) ==
  LET p == c.params
      action == c.action
  IN CASE action = "describe_ui" ->
            Await("describe_collect", Proc("axorc", "collectAll"), loc)
       [] action = "tap" -> tap(p, "tap", loc)
       [] action = "type" -> typeAction(p, loc)
       [] action = "clear_text" -> clearText(p, loc)
       [] action = "query_text" -> Await("query_extract", Proc("axorc", "extractText"), loc)
       [] action = "wait_for" -> waitFor(p, ab, loc)
       [] action = "assert" -> assertElement(p, loc)
       [] action = "screenshot" -> screenshot(p, loc)
       [] OTHER -> Return(Fail(BACKEND, err("UNSUPPORTED_ACTION", ""), NoData), loc)

\* executeAxorcistAction up to its first await.
AxorcistStart(loc) ==
  Enter("executeAxorcistAction", Await("ax_probe", Proc("command -v", "axorc"), loc))

\* variant: the application is not required.
AxorcistAfterProbe_NoApplicationCheck(c, ab, loc, available) ==
  IF ~available
    THEN Return(Fail(BACKEND, err("AXORC_NOT_FOUND", "install AXorcist"), NoData), loc)
  ELSE IF c.application \in Dotted
    THEN AxorcistAction(c, ab, [loc EXCEPT !.application = c.application])
  ELSE Await("ax_resolve", Proc("osascript", "id of app"), loc)

\* executeAxorcistAction after hasAxorc.
AxorcistAfterProbe(c, ab, loc, available) ==
  IF ~available
    THEN Return(Fail(BACKEND, err("AXORC_NOT_FOUND", "install AXorcist"), NoData), loc)
  ELSE IF ~Truthy(c.application)
    THEN Return(Fail(BACKEND, err("MISSING_APPLICATION", "pass application param"), NoData), loc)
  ELSE IF c.application \in Dotted
    THEN AxorcistAction(c, ab, [loc EXCEPT !.application = c.application])
  ELSE Await("ax_resolve", Proc("osascript", "id of app"), loc)

AxAfterHasAxorc ==
  /\ pc = "ax_probe"
  /\ \E exitCode \in ExitCodes, path \in {"", "/usr/local/bin/axorc"}, executable \in BOOLEAN :
       LET available == hasCommand(exitCode, path, executable)
       IN Apply(AxorcistAfterProbe(ctx, aborted, [local EXCEPT !.available = IF available THEN "yes" ELSE "no"],
                                   available))
  /\ UNCHANGED <<ctx, backend, aborted>>

\* variant: any output of a successful lookup is taken.
resolveApplicationId_AnyOutput(application, exitCode, output) ==
  IF exitCode = 0 /\ output # "" THEN output ELSE application

\* resolveApplicationId after the lookup.
resolveApplicationId(application, exitCode, output) ==
  IF exitCode = 0 /\ output # "" /\ output \in Dotted THEN output ELSE application

AxAfterResolveApp ==
  /\ pc = "ax_resolve"
  /\ \E exitCode \in ExitCodes, output \in {"", "finder", "com.apple.finder"} :
       Apply(AxorcistAction(ctx, aborted,
               [local EXCEPT !.application =
                               resolveApplicationId(ctx.application, exitCode, output),
                             !.lookup = [ok |-> exitCode = 0, output |-> output]]))
  /\ UNCHANGED <<ctx, backend, aborted>>


\* ------------------------------------------------------------------------
\* Dispatcher and tool entry points
\* ------------------------------------------------------------------------
Unsupported(b) == Fail(b, err("", ""), NoData)

\* variant: the shared-action test comes before the axorcist test.
Dispatch_SharedFirst(c, b, loc) ==
  Enter("executeUiBackendAction",
    IF ~backendSupportsAction(b, c.action) THEN Return(Unsupported(b), loc)
    ELSE IF c.action \in SHARED_ACTIONS THEN SharedStart(c, b, loc)
    ELSE IF b = "axorcist" THEN AxorcistStart(loc)
    ELSE RunnerStart(c, b, loc))

\* executeUiBackendAction up to the first await of the chosen strategy.
Dispatch(c, b, loc) ==
  Enter("executeUiBackendAction",
    IF ~backendSupportsAction(b, c.action) THEN Return(Unsupported(b), loc)
    ELSE IF b = "axorcist" THEN AxorcistStart(loc)
    ELSE IF c.action \in SHARED_ACTIONS THEN SharedStart(c, b, loc)
    ELSE RunnerStart(c, b, loc))

ExecuteUiBackendAction ==
  /\ pc = "idle"
  /\ \E c \in Contexts, ab \in BOOLEAN :
       LET b == resolveUiBackend(c.backendMode)
       IN /\ ctx' = c
          /\ aborted' = ab
          /\ backend' = b
          /\ Apply(Dispatch(c, b, local))

resolveRunnerCommand(explicitCommand, entries) ==
  LET defaults == {i \in 1..Len(entries) : entries[i].key = "default"}
  IN IF Truthy(explicitCommand) THEN explicitCommand
     ELSE IF Len(entries) = 0 THEN None
     ELSE IF Len(entries) = 1 THEN entries[1].value
     ELSE IF \E i \in defaults : Truthy(entries[i].value)
       THEN entries[CHOOSE i \in defaults : TRUE].value
     ELSE entries[1].value

\* execute of the xcode_ui tool: its own runner check, then the dispatcher.
XcodeUiExecute ==
  /\ pc = "idle"
  /\ \E t \in Contexts, commands \in ConfigCommands, ab \in BOOLEAN :
       LET mode == IF t.backendMode = None THEN "xcuitest" ELSE t.backendMode
           runnerCommand == resolveRunnerCommand(t.runnerCommand, commands)
           c == [t EXCEPT !.backendMode = mode, !.runnerCommand = runnerCommand]
           b == resolveUiBackend(mode)
       IN /\ ctx' = c
          /\ aborted' = ab
          /\ backend' = b
          /\ IF c.action \in INTERACTIVE_ACTIONS /\ ~Truthy(runnerCommand) /\ mode # "axorcist"
               THEN Apply(Return(Fail(b, err("MISSING_RUNNER", "Configure with /xcode:setup"),
                                      NoData), local))
             ELSE Apply(Dispatch(c, b, local))

Next ==
  \/ ExecuteUiBackendAction
  \/ XcodeUiExecute
  \/ SignalAbort
  \/ RunnerAfterIdbProbe
  \/ RunnerAfterRun
  \/ SharedAfterProcess
  \/ AxAfterHasAxorc
  \/ AxAfterResolveApp
  \/ TapAfterPress
  \/ SwiftTapScript
  \/ TapAfterSwift
  \/ TypeAfterSetValue
  \/ TypeAfterSettle
  \/ TypeAfterKeystroke
  \/ ClearTextAfterSetValue
  \/ DescribeUiAfterCollect
  \/ QueryTextAfterExtract
  \/ AssertAfterQuery
  \/ ScreenshotAfterCapture
  \/ WaitForAfterQuery
  \/ WaitForAfterSleep
  \/ SleepAbortListener

Spec == Init /\ [][Next]_vars

TypeOK ==
  /\ pc \in STRING
  /\ aborted \in BOOLEAN
  /\ thrown \in BOOLEAN
  /\ result.ok \in BOOLEAN


\* ------------------------------------------------------------------------
\* Properties
\* ------------------------------------------------------------------------
\* the call returned an envelope.
Returned == pc = "done" /\ ~thrown

\* code of the first error of an envelope; None when it has no error.
ErrorCode(env) == IF Len(env.errors) = 0 THEN None ELSE env.errors[1].code

Positions(events, e) == {i \in 1..Len(events) : events[i] = e}

IsPrefix(s, t) == Len(s) <= Len(t) /\ SubSeq(t, 1, Len(s)) = s

TierOrder == <<"validated_press", "direct_press", "coordinate_click">>

\* the tiers attempted so far, in the order they were attempted.
TierAttempts == SelectSeq(local.tiers, LAMBDA e : \E i \in 1..Len(TierOrder) : TierOrder[i] = e)

RunnerExited == pc = "done" /\ procs # <<>> /\ procs[Len(procs)].cmd = "runner"

BraceLineParses(line) ==
  /\ line # <<>>
  /\ line[1] = "{"
  /\ line[Len(line)] = "}"
  /\ JsonParse(line).valid

\* the whole output does not parse and no line of the form {...} parses.
NoParseableJson(stdout) ==
  /\ ~JsonParse(Flatten(stdout)).valid
  /\ \A i \in 1..Len(stdout) : ~BraceLineParses(stdout[i])

\* neither the whole output nor a {...} line parses to an object.
NoJsonObject(stdout) ==
  /\ ~isRecord(JsonParse(Flatten(stdout)))
  /\ \A i \in 1..Len(stdout) : ~(BraceLineParses(stdout[i]) /\ isRecord(JsonParse(stdout[i])))

ExpectedStrategy ==
  IF backend = "axorcist" THEN "executeAxorcistAction"
  ELSE IF ctx.action \in SHARED_ACTIONS THEN "executeSharedUiAction"
  ELSE "executeRunnerAction"

\* the strategy whose tools a process belongs to.
ProcessOwner(p) ==
  IF p.cmd = "runner" \/ (p.cmd = "command -v" /\ p.arg = "idb") THEN "executeRunnerAction"
  ELSE IF p.cmd \in {"simctl io screenshot", "simctl io recordVideo", "kill -INT",
                     "simctl spawn log stream", "ls DiagnosticReports", "cp", "cat report"}
    THEN "executeSharedUiAction"
  ELSE "executeAxorcistAction"

ResolvedBackend ==
  IF ctx.backendMode \in {None, "auto"} THEN "xcuitest" ELSE ctx.backendMode

\* C1: an interactive action on xcuitest or idb without a runner command
\* returns ok=false with code MISSING_RUNNER, and no process was spawned.
C1_MissingRunnerNoSpawn ==
  (/\ pc # "idle"
   /\ backend \in {"xcuitest", "idb"}
   /\ ctx.action \in INTERACTIVE_ACTIONS
   /\ ~Truthy(ctx.runnerCommand))
    => (/\ Returned
        /\ ~result.ok
        /\ ErrorCode(result) = "MISSING_RUNNER"
        /\ procs = <<>>)

C1_Witness ==
  /\ Returned
  /\ backend = "idb"
  /\ ctx.action = "tap"
  /\ ctx.runnerCommand = ""
  /\ calls = <<"executeUiBackendAction", "executeRunnerAction">>
  /\ ErrorCode(result) = "MISSING_RUNNER"
  /\ procs = <<>>

\* C2: the tap tiers are attempted in the order validated press, direct
\* press, coordinate click, and a coordinate click is attempted only after
\* both presses were attempted and both failed.
C2_TapTierOrder ==
  /\ IsPrefix(TierAttempts, TierOrder)
  /\ \A k \in Positions(local.tiers, "coordinate_click") :
       \E i \in Positions(local.tiers, "validated_press"),
          j \in Positions(local.tiers, "validated_press_failed"),
          l \in Positions(local.tiers, "direct_press"),
          m \in Positions(local.tiers, "direct_press_failed") :
         i < j /\ j < l /\ l < m /\ m < k

C2_Witness ==
  /\ Returned
  /\ ctx.action = "tap"
  /\ result.ok
  /\ result.data = [kind |-> "fallback", method |-> "coordinate_click"]
  /\ TierAttempts = TierOrder

\* C3: a native tap whose validated press was rejected and whose direct
\* press succeeded returns ok=true with data.method = "AXPress" and never
\* attempted the coordinate click; a success of the validated press carries
\* no fallback method.
C3_Tier2Reported ==
  (Returned /\ backend = "axorcist" /\ ctx.action = "tap") =>
    /\ (/\ Positions(local.tiers, "validated_press_failed") # {}
        /\ Positions(local.tiers, "direct_press") # {}
        /\ Positions(local.tiers, "direct_press_failed") = {})
         => (/\ result.ok
             /\ result.data = [kind |-> "fallback", method |-> "AXPress"]
             /\ Positions(local.tiers, "coordinate_click") = {})
    /\ (result.ok /\ local.tiers = <<"validated_press">>)
         => result.data.kind # "fallback"

C3_Witness ==
  /\ Returned
  /\ ctx.action = "tap"
  /\ local.tiers = <<"validated_press", "validated_press_failed", "direct_press">>
  /\ result.ok
  /\ result.data.kind = "fallback"
  /\ result.data.method = "AXPress"

\* C4: a call of the dispatcher never ends by throwing.
C4_NeverThrows == ~thrown

\* C5: every envelope returned by executeUiBackendAction with ok=false has
\* a non-empty errors list.
C5_FailureHasErrors ==
  (Returned /\ calls # <<>> /\ ~result.ok) => Len(result.errors) > 0

\* C6: for an unsupported (backend, action) pair executeUiBackendAction
\* returns ok=false with an error that carries a code, and spawns nothing.
C6_UnsupportedHasCode ==
  (Returned /\ calls # <<>> /\ ~backendSupportsAction(backend, ctx.action)) =>
    /\ ~result.ok
    /\ ErrorCode(result) \notin {None, ""}
    /\ procs = <<>>

\* C7: for a supported pair exactly one strategy is entered, the one the
\* routing rule names, and every process spawned belongs to that strategy.
C7_OneStrategy ==
  (calls # <<>> /\ backendSupportsAction(backend, ctx.action)) =>
    /\ calls = <<"executeUiBackendAction", ExpectedStrategy>>
    /\ \A i \in 1..Len(procs) : ProcessOwner(procs[i]) = ExpectedStrategy

C7_Witness ==
  /\ Returned
  /\ backend = "axorcist"
  /\ ctx.action = "screenshot"
  /\ ctx.runnerCommand = "cmd"
  /\ result.ok
  /\ procs[Len(procs)].cmd = "screencapture"
  /\ calls = <<"executeUiBackendAction", "executeAxorcistAction">>

\* C8: the backend is xcuitest when the mode is unset or auto and the given
\* name otherwise, and every returned envelope carries that backend.
C8_BackendResolved ==
  /\ pc # "idle" => backend = ResolvedBackend
  /\ Returned => result.backend = ResolvedBackend

C8_Witness ==
  /\ Returned
  /\ ctx.backendMode = "auto"
  /\ calls = <<"executeUiBackendAction", "executeRunnerAction">>
  /\ result.ok
  /\ result.backend = "xcuitest"

\* C9 as stated: runner output without parseable JSON always yields
\* RUNNER_INVALID_OUTPUT.
C9_Original ==
  (RunnerExited /\ NoParseableJson(local.run.stdout)) =>
    (~result.ok /\ ErrorCode(result) = "RUNNER_INVALID_OUTPUT")

\* C9: runner output without parseable JSON yields RUNNER_INVALID_OUTPUT
\* when the runner exited with code 0, and RUNNER_FAILED otherwise.
C9_InvalidOutput ==
  (RunnerExited /\ NoParseableJson(local.run.stdout)) =>
    /\ ~result.ok
    /\ ErrorCode(result) = IF local.run.exitCode = 0 THEN "RUNNER_INVALID_OUTPUT"
                           ELSE "RUNNER_FAILED"

C9_Witness ==
  /\ RunnerExited
  /\ local.run.exitCode = 0
  /\ local.run.stdout = << <<"log">>, <<"{", "log", "}">> >>
  /\ ErrorCode(result) = "RUNNER_INVALID_OUTPUT"

\* C10: a runner that exits non-zero without a JSON object on stdout yields
\* RUNNER_FAILED with the exit code, stdout and stderr as data, and the
\* runner was invoked exactly once.
C10_RunnerFailed ==
  (RunnerExited /\ local.run.exitCode # 0 /\ NoJsonObject(local.run.stdout)) =>
    /\ ~result.ok
    /\ ErrorCode(result) = "RUNNER_FAILED"
    /\ result.data = [kind |-> "run", exitCode |-> local.run.exitCode,
                      stdout |-> TrimLines(local.run.stdout), stderr |-> local.run.stderr]
    /\ Cardinality({i \in 1..Len(procs) : procs[i].cmd = "runner"}) = 1

C10_Witness ==
  /\ RunnerExited
  /\ local.run.exitCode = 1
  /\ local.run.stdout = << <<"log">> >>
  /\ local.run.stderr = "E"
  /\ ErrorCode(result) = "RUNNER_FAILED"
  /\ result.data.exitCode = 1

\* the runner printed a JSON object whose ok is a boolean.
HasBooleanOk(stdout) == parseRunnerJson(stdout).ok \in {"true", "false"}

\* C11: once stdout yields a JSON object with a boolean ok, the envelope of
\* the runner strategy is the same for every exit code, and a non-zero exit
\* with an ok=false payload yields the runner's errors, never RUNNER_FAILED.
C11_ExitCodeIgnored ==
  (RunnerExited /\ HasBooleanOk(local.run.stdout)) =>
    /\ \A exitCode \in ExitCodes :
         RunnerEnvelope(backend, exitCode, local.run.stdout, local.run.stderr) = result
    /\ (local.run.exitCode # 0 /\ ~result.ok) =>
         /\ ErrorCode(result) # "RUNNER_FAILED"
         /\ parseRunnerJson(local.run.stdout).errors = "object"
              => result.errors = <<err("E_RUNNER", "runner hint")>>

C11_Witness ==
  /\ RunnerExited
  /\ local.run.exitCode = 1
  /\ local.run.stdout = << <<"log">>, <<"{", "ok:false", ",", "errors:[o]", "}">> >>
  /\ ~result.ok
  /\ result.errors = <<err("E_RUNNER", "runner hint")>>

IndexOf(p) == {i \in 1..Len(procs) : procs[i] = p}

IdbProbe == Proc("command -v", "idb")

RunnerInvocations == {i \in 1..Len(procs) : procs[i].cmd = "runner"}

\* C12: on backend idb with a runner command, idb is probed before the
\* runner is invoked; when idb is absent the call returns IDB_NOT_FOUND with
\* an install hint and the runner is never invoked.
C12_IdbProbedFirst ==
  (/\ backend = "idb"
   /\ Truthy(ctx.runnerCommand)
   /\ calls = <<"executeUiBackendAction", "executeRunnerAction">>) =>
    /\ \A i \in RunnerInvocations : \E j \in IndexOf(IdbProbe) : j < i
    /\ pc # "runner_idb" => local.available \in {"yes", "no"}
    /\ local.available = "no" =>
         /\ Returned
         /\ ~result.ok
         /\ ErrorCode(result) = "IDB_NOT_FOUND"
         /\ result.errors[1].hint # ""
         /\ RunnerInvocations = {}

C12_Witness ==
  /\ Returned
  /\ backend = "idb"
  /\ ctx.runnerCommand = "cmd"
  /\ local.available = "no"
  /\ procs = <<IdbProbe>>
  /\ ErrorCode(result) = "IDB_NOT_FOUND"

AxorcProbe == Proc("command -v", "axorc")

AppLookup == Proc("osascript", "id of app")

NativeCall == calls = <<"executeUiBackendAction", "executeAxorcistAction">>

\* C13: a native call probes for axorc exactly once and first; when axorc
\* is absent it returns AXORC_NOT_FOUND with install guidance and spawns
\* nothing else; when axorc is present and no application was given it
\* returns MISSING_APPLICATION and spawns nothing else.
C13_AxorcProbedOnce ==
  NativeCall =>
    /\ procs[1] = AxorcProbe
    /\ Cardinality(IndexOf(AxorcProbe)) = 1
    /\ pc # "ax_probe" => local.available \in {"yes", "no"}
    /\ local.available = "no" =>
         /\ Returned
         /\ ~result.ok
         /\ ErrorCode(result) = "AXORC_NOT_FOUND"
         /\ result.errors[1].hint # ""
         /\ procs = <<AxorcProbe>>
    /\ (local.available = "yes" /\ ~Truthy(ctx.application)) =>
         /\ Returned
         /\ ~result.ok
         /\ ErrorCode(result) = "MISSING_APPLICATION"
         /\ procs = <<AxorcProbe>>

C13_Witness ==
  /\ Returned
  /\ NativeCall
  /\ local.available = "yes"
  /\ ctx.application = ""
  /\ ErrorCode(result) = "MISSING_APPLICATION"
  /\ procs = <<AxorcProbe>>

\* the native call got past the resolution of the application identity.
ApplicationResolved ==
  /\ NativeCall
  /\ local.available = "yes"
  /\ Truthy(ctx.application)
  /\ pc # "ax_resolve"

\* C14: an application identity containing '.' is used as-is without a
\* lookup; otherwise exactly one lookup is issued, before any accessibility
\* command, its output is used only when it succeeded and contains '.',
\* the original string is used in every other case, and the action proceeds.
C14_ApplicationBestEffort ==
  /\ (NativeCall /\ pc = "ax_resolve") => procs = <<AxorcProbe, AppLookup>>
  /\ ApplicationResolved =>
       IF ctx.application \in Dotted
         THEN /\ local.application = ctx.application
              /\ IndexOf(AppLookup) = {}
         ELSE /\ IndexOf(AppLookup) = {2}
              /\ local.application =
                   IF local.lookup.ok /\ local.lookup.output \in Dotted
                     THEN local.lookup.output
                   ELSE ctx.application
              /\ ctx.action \in {"describe_ui", "query_text", "screenshot"}
                   => Len(procs) >= 3

C14_Witness ==
  /\ Returned
  /\ NativeCall
  /\ ctx.application = "Finder"
  /\ local.lookup = [ok |-> TRUE, output |-> "finder"]
  /\ local.application = "Finder"
  /\ ctx.action = "describe_ui"
  /\ result.ok

HasLocator == buildLocator(ctx.params) # <<>>

\* the platform accepted one of the tiers of the tap.
TapSucceeded(events) ==
  /\ Positions(events, "validated_press") # {}
  /\ \/ Positions(events, "validated_press_failed") = {}
     \/ /\ Positions(events, "direct_press") # {}
        /\ Positions(events, "direct_press_failed") = {}
     \/ Positions(events, "coordinate_click") # {}

NativeType == NativeCall /\ ctx.action = "type"

\* C15: in the native type action keystrokes are sent only after the value
\* set was attempted and failed; with a locator they are sent only after a
\* successful tap and the settle delay, a failed tap ends the call with
\* ok=false and no keystroke; without a locator no tap is performed.
C15_KeystrokesLast ==
  NativeType =>
    /\ Cardinality(IndexOf(KeystrokeProc)) = Cardinality(Positions(local.tiers, "keystroke"))
    /\ \A k \in Positions(local.tiers, "keystroke") :
         /\ \E i \in Positions(local.tiers, "value_set"),
               j \in Positions(local.tiers, "value_set_failed") : i < j /\ j < k
         /\ HasLocator =>
              /\ TapSucceeded(SubSeq(local.tiers, 1, k - 1))
              /\ local.tiers[k - 1] = "settled"
    /\ (Returned /\ HasLocator /\ Positions(local.tiers, "value_set_failed") # {}
          /\ ~TapSucceeded(local.tiers)) =>
         /\ ~result.ok
         /\ Positions(local.tiers, "keystroke") = {}
    /\ ~HasLocator =>
         /\ Positions(local.tiers, "validated_press") = {}
         /\ \A i \in 1..Len(procs) : procs[i].cmd # "swift"

C15_Witness ==
  /\ Returned
  /\ NativeType
  /\ result.ok
  /\ result.data = [kind |-> "typed", method |-> "keystroke_fallback"]
  /\ local.tiers = <<"value_set", "value_set_failed", "validated_press",
                     "validated_press_failed", "direct_press", "settled", "keystroke">>

\* the processes awaited by a wait_for call exit and its timer fires.
LiveSpec ==
  /\ Spec
  /\ WF_vars(AxAfterHasAxorc)
  /\ WF_vars(AxAfterResolveApp)
  /\ WF_vars(WaitForAfterQuery)
  /\ WF_vars(WaitForAfterSleep)

NativeWait == NativeCall /\ ctx.action = "wait_for"

PollProc == Proc("axorc", "query")

Polls == Cardinality(IndexOf(PollProc))

\* the timeout of the call in milliseconds, 10 s when none was given.
WaitTimeoutMs ==
  IF ctx.params.timeoutMs = NotANumber THEN 10000 ELSE ctx.params.timeoutMs

\* the least number of 500 ms intervals that cover the timeout.
PollBound ==
  CHOOSE n \in 0..(WaitTimeoutMs \div 500 + 1) :
    /\ n * 500 >= WaitTimeoutMs
    /\ (n - 1) * 500 < WaitTimeoutMs

\* the polling loop of the call was entered.
WaitLoopEntered == NativeWait /\ ApplicationResolved /\ HasLocator

WaitPollsBounded ==
  NativeWait =>
    /\ Polls <= PollBound
    /\ (WaitLoopEntered /\ Returned /\ ~aborted /\ ~result.ok) =>
         /\ ErrorCode(result) = "WAIT_TIMEOUT"
         /\ Polls = PollBound

\* C16: a native wait_for issues at most ceil(timeout / 500 ms) polls, ends
\* with a timeout error when every poll failed and nothing was cancelled,
\* and always terminates.
C16_WaitTerminates ==
  /\ []WaitPollsBounded
  /\ NativeWait ~> (pc = "done")

C16_Witness ==
  /\ Returned
  /\ NativeWait
  /\ ctx.params.timeoutMs = 2000
  /\ ~aborted
  /\ Polls = 4
  /\ ErrorCode(result) = "WAIT_TIMEOUT"

\* C17: a native wait_for returns at the first successful poll, with
\* ok=true, data.found = true and data.attempts equal to the number of polls
\* issued, whatever payload the accessibility tool returned.
C17_WaitSuccessData ==
  (NativeWait /\ local.axorc.kind = "success") =>
    /\ Returned
    /\ result.ok
    /\ result.data.found = TRUE
    /\ result.data.attempts = Polls

\* C18: a native wait_for with a locator that starts with the signal
\* already fired returns ABORTED without a single poll, for every timeout.
C18_AbortedAtStart ==
  (WaitLoopEntered /\ aborted /\ Polls = 0) =>
    /\ Returned
    /\ ~result.ok
    /\ ErrorCode(result) = "ABORTED"

\* C19: when the signal fires during the wait between two polls, the call
\* ends at once with an envelope that has ok=false, and issues no poll.
C19_AbortBetweenPolls ==
  [][(pc = "wait_sleep" /\ ~aborted /\ aborted') =>
       /\ pc' = "done"
       /\ ~thrown'
       /\ ~result'.ok
       /\ procs' = procs]_vars

\* the value attribute of the element, None when it has none.
ElementValue(payload) ==
  LET w == payload.AXValue
      av == IF w.any_value.t \in {"undefined", "null"} THEN w.anyValue ELSE w.any_value
  IN IF ~w.present \/ av.t \in {"undefined", "null"} THEN None ELSE av.s

\* C20: a native assert that found its element returns ok=true iff the
\* element's value equals the expected value, reports a mismatch with code
\* ASSERT_VALUE_MISMATCH and data holding the expected and the actual
\* value, and succeeds whenever no expected value was given.
C20_AssertValue ==
  (NativeCall /\ ctx.action = "assert" /\ local.axorc.kind = "success") =>
    LET expected == ctx.params.loc["value"]
        actual == ElementValue(local.axorc.payload)
    IN /\ Returned
       /\ IF expected = None THEN result.ok
          ELSE /\ result.ok <=> (actual = expected)
               /\ ~result.ok =>
                    /\ ErrorCode(result) = "ASSERT_VALUE_MISMATCH"
                    /\ result.data.expected = expected
                    /\ result.data.actual = actual

SharedCall == calls = <<"executeUiBackendAction", "executeSharedUiAction">>

KillSignals == {i \in 1..Len(procs) : procs[i].cmd = "kill -INT"}

\* C21: video_stop and logs_stop without a pid return MISSING_PID and spawn
\* no process; with a pid exactly one interrupt is sent, to that pid.
C21_StopNeedsPid ==
  (SharedCall /\ ctx.action \in {"video_stop", "logs_stop"}) =>
    IF ~Truthy(ctx.params.pid)
      THEN /\ Returned
           /\ ~result.ok
           /\ ErrorCode(result) = "MISSING_PID"
           /\ procs = <<>>
    ELSE /\ procs = <<Proc("kill -INT", ctx.params.pid)>>
         /\ Cardinality(KillSignals) = 1

C21_Witness ==
  /\ Returned
  /\ SharedCall
  /\ ctx.action = "video_stop"
  /\ ctx.params.pid = None
  /\ ErrorCode(result) = "MISSING_PID"
  /\ procs = <<>>

\* the locator criteria the caller supplied.
SuppliedCriteria == {k \in LocatorKeys : ctx.params.loc[k] # None}

\* the accessibility commands spawned so far: axorc, the Swift helper and
\* the keystroke script.
AccessibilityCommands ==
  {i \in 1..Len(procs) : procs[i].cmd \in {"axorc", "swift"} \/ procs[i] = KeystrokeProc}

\* C22: a native tap, clear_text, wait_for or assert without any locator
\* criterion returns MISSING_PARAMS and issues no accessibility command.
C22_LocatorRequired ==
  (ApplicationResolved /\ ctx.action \in {"tap", "clear_text", "wait_for", "assert"}
     /\ SuppliedCriteria = {}) =>
    /\ Returned
    /\ ~result.ok
    /\ ErrorCode(result) = "MISSING_PARAMS"
    /\ AccessibilityCommands = {}

C22_Witness ==
  /\ Returned
  /\ ApplicationResolved
  /\ ctx.action = "clear_text"
  /\ SuppliedCriteria = {}
  /\ ErrorCode(result) = "MISSING_PARAMS"
  /\ procs = <<AxorcProbe>>

\* C23: every error entry with a precondition code carries a non-empty
\* hint, and the call ends with it without spawning anything afterwards.
C23_PreconditionHints ==
  (Returned /\ calls # <<>>) =>
    \A i \in 1..Len(result.errors) :
      result.errors[i].code \in {"MISSING_RUNNER", "MISSING_APPLICATION", "MISSING_PARAMS"}
        => result.errors[i].hint # ""

\* C24: a fallback-exhaustion code is returned only by a call that tried
\* every tier of its chain and saw each fail.
C24_ExhaustionOnly ==
  (Returned /\ ~result.ok) =>
    /\ ErrorCode(result) = "AXPRESS_FALLBACK_FAILED" =>
         /\ Positions(local.tiers, "validated_press_failed") # {}
         /\ Positions(local.tiers, "direct_press_failed") # {}
    /\ ErrorCode(result) \in {"TYPE_FALLBACK_FAILED", "KEYSTROKE_FALLBACK_FAILED"} =>
         /\ Positions(local.tiers, "value_set_failed") # {}
         /\ Positions(local.tiers, "keystroke") # {}

\* C25: a native screenshot captures the display to the given or default
\* path whatever the application parameter is, none included, and a
\* successful one returns that path as its artifact.
C25_ScreenshotAnyApplication ==
  (NativeCall /\ ctx.action = "screenshot" /\ local.available = "yes" /\ Returned) =>
    LET path == IF Truthy(ctx.params.path) THEN ctx.params.path ELSE DefaultArtifactPath
    IN /\ Cardinality(IndexOf(Proc("screencapture", path))) = 1
       /\ result.ok => result.artifacts = [name |-> "screenshot", path |-> path]

\* the call has just started the tier that follows an axorc request.
NextTierStarted ==
  \/ pc = "tap_swift"
  \/ pc = "tap_press" /\ local.tapCaller = "type"
  \/ pc = "type_keys" /\ ~HasLocator

\* each later tier directly follows the observed failure of the one before.
TiersSequential ==
  /\ \A k \in Positions(local.tiers, "direct_press") :
       k > 1 /\ local.tiers[k - 1] = "validated_press_failed"
  /\ \A k \in Positions(local.tiers, "coordinate_click") :
       k > 1 /\ local.tiers[k - 1] = "direct_press_failed"
  /\ \A k \in Positions(local.tiers, "validated_press") :
       local.tapCaller = "type" => (k > 1 /\ local.tiers[k - 1] = "value_set_failed")
  /\ \A k \in Positions(local.tiers, "keystroke") :
       Positions(local.tiers, "value_set_failed") # {}

\* C26: in native tap and type a later tier starts only after the earlier
\* one completed with a rejection reported by axorc; output that is no
\* axorc response does not start the next tier.
C26_TierAfterRejection ==
  (NativeCall /\ ctx.action \in {"tap", "type"}) =>
    /\ TiersSequential
    /\ NextTierStarted => local.axorc.kind = "error"

\* C27: parseRunnerJson gives the value of the whole output when that
\* parses (null when it is no object), otherwise the object of the last line
\* that starts with {, ends with } and parses, and null when there is no
\* such line or the output is blank.
C27_LastJsonLine ==
  RunnerExited =>
    LET stdout == local.run.stdout
        whole == JsonParse(Flatten(stdout))
        q == {i \in 1..Len(stdout) : BraceLineParses(stdout[i])}
        parsed == parseRunnerJson(stdout)
    IN /\ Flatten(stdout) = <<>> => parsed = Invalid
       /\ whole.valid => parsed = (IF whole.rec THEN whole ELSE Invalid)
       /\ (~whole.valid /\ q = {}) => parsed = Invalid
       /\ (~whole.valid /\ q # {}) =>
            \E i \in q : /\ \A j \in q : j <= i
                         /\ parsed = JsonParse(stdout[i])
                         /\ parsed.rec

C27_Witness ==
  /\ RunnerExited
  /\ local.run.stdout = << <<"log">>, <<"{", "ok:true", ",", "data:{}", "}">> >>
  /\ parseRunnerJson(local.run.stdout).ok = "true"
  /\ result.ok

\* the native attribute a criterion of the parameters is matched against.
NativeAttribute(k) ==
  CASE k = "identifier" -> "AXIdentifier"
    [] k = "title" -> "AXTitle"
    [] k = "role" -> "AXRole"
    [] k = "description" -> "AXDescription"
    [] k = "placeholder" -> "AXPlaceholderValue"
    [] k = "label" -> "AXTitle"
    [] k = "value" -> "AXValue"

\* C28: the locator of a native call has one criterion for each supplied
\* criterion, on that criterion's native attribute and value, and is null
\* exactly when none is supplied.
C28_OneCriterionEach ==
  NativeCall =>
    LET locator == buildLocator(ctx.params)
    IN /\ Len(locator) = Cardinality(SuppliedCriteria)
       /\ \A k \in SuppliedCriteria :
            \E i \in 1..Len(locator) :
              /\ locator[i].attribute = NativeAttribute(k)
              /\ locator[i].value = ctx.params.loc[k]
       /\ locator = <<>> <=> SuppliedCriteria = {}

\* reading a string literal of the script: a backslash takes the next
\* character as it is, an unescaped quote closes the literal.
RECURSIVE ReadBody(_)
ReadBody(s) ==
  IF s = <<>> THEN [wellFormed |-> FALSE, text |-> <<>>]
  ELSE IF Head(s) = Quote THEN [wellFormed |-> Len(s) = 1, text |-> <<>>]
  ELSE IF Head(s) = Backslash
    THEN IF Len(s) < 2 THEN [wellFormed |-> FALSE, text |-> <<>>]
         ELSE LET rest == ReadBody(SubSeq(s, 3, Len(s)))
              IN [rest EXCEPT !.text = <<s[2]>> \o @]
  ELSE LET rest == ReadBody(Tail(s))
       IN [rest EXCEPT !.text = <<Head(s)>> \o @]

ReadLiteral(lit) ==
  IF lit = <<>> \/ Head(lit) # Quote THEN [wellFormed |-> FALSE, text |-> <<>>]
  ELSE ReadBody(Tail(lit))

\* C29: the literal embedded in the keystroke script is well-formed and
\* reads back as exactly the text of the call, and every backslash and quote
\* of the text is preceded by an escaping backslash in it.
C29_EscapeRoundTrip ==
  (NativeType /\ Positions(local.tiers, "keystroke") # {}) =>
    /\ ReadLiteral(local.script) = [wellFormed |-> TRUE, text |-> ctx.params.text]
    /\ Len(local.script) =
         2 + Len(ctx.params.text)
           + Cardinality({i \in 1..Len(ctx.params.text) :
                            ctx.params.text[i] \in {Backslash, Quote}})

C29_Witness ==
  /\ Returned
  /\ NativeType
  /\ Positions(local.tiers, "keystroke") # {}
  /\ result.ok
  /\ ctx.params.text = <<Backslash, Quote>>
  /\ local.script = <<Quote, Backslash, Backslash, Backslash, Quote, Quote>>

\* C30: a native tap ends with MISSING_PARAMS only when no locator criterion
\* was supplied, and then without having issued an accessibility command.
C30_TapMissingParams ==
  (NativeCall /\ ctx.action = "tap" /\ Returned /\ ErrorCode(result) = "MISSING_PARAMS") =>
    /\ SuppliedCriteria = {}
    /\ AccessibilityCommands = {}

====
